---- MODULE Spec2Model ----
(***************************************************************************)
(* Model of gimmemotifs/scanner/__init__.py: the orchestration layer that  *)
(* resolves the motif source, configures a Scanner and renders its         *)
(* results (scan_regionfile_to_table, scan_to_file, scan_to_best_match,    *)
(* check_motifs, _format_line and the three result generators).            *)
(*                                                                         *)
(* Python values are modelled as follows: None is the string "None", a     *)
(* text (sequence identifier, residues) is a tuple of one-character        *)
(* strings, a float score is an integer number of 10^-6 units.             *)
(***************************************************************************)
EXTENDS Integers, Sequences, FiniteSets, TLC

VARIABLES op, pc, args, pfmfile, fo, out, calls, motifs, it, result, exc, cm, fl

vars == <<op, pc, args, pfmfile, fo, out, calls, motifs, it, result, exc, cm, fl>>

(* ------------------------------ bounds -------------------------------- *)
MaxSeqs == 2
MaxMotifs == 2
MaxListLen == 3
MaxIdLen == 6
MaxPos == 1
MaxMotifLen == 2

(* ------------------------- Python primitives -------------------------- *)
None == "None"

\* bool(v) for the argument values used here: None, "" and 0.0 are falsy.
Truthy(v) == v \notin {"None", "", "0.0"}

Min(a, b) == IF a < b THEN a ELSE b

\* seq[lo:hi] on a text, 0-based and clamped to the text as Python slices are.
Slice(seq, lo, hi) == SubSeq(seq, Min(lo, Len(seq)) + 1, Min(hi, Len(seq)))

Digits == <<"0", "1", "2", "3", "4", "5", "6", "7", "8", "9">>

IsDigit(c) == \E d \in 1..10 : Digits[d] = c

IsSpace(c) == c \in {" ", "\t", "\n", "\r"}

DigitVal(c) == (CHOOSE d \in 1..10 : Digits[d] = c) - 1

\* int(text) for a text of decimal digits.
RECURSIVE ParseInt(_)
ParseInt(ds) ==
    IF Len(ds) = 0 THEN 0
    ELSE 10 * ParseInt(SubSeq(ds, 1, Len(ds) - 1)) + DigitVal(ds[Len(ds)])

(* ----------------------------- check_motifs --------------------------- *)
\* A motif-source argument: a list (elems), a path string, None or any other
\* object.  exists says whether the path it resolves to is on the file
\* system; default is the configured motif_db (None when not registered).
PfmArg(kind, elems, path, exists, default) ==
    [kind |-> kind, elems |-> elems, path |-> path, exists |-> exists,
     default |-> default]

MotifObj(id, len) == [id |-> id, to_ppm |-> TRUE, len |-> len]

\* An object without the to_ppm attribute (e.g. a motif name given as text).
PlainObj(id) == [id |-> id, to_ppm |-> FALSE, len |-> 0]

Outcome(e, v, checked) == [exc |-> e, value |-> v, exists_checked |-> checked]

check_motifs_path(p, pfm) ==
    IF ~p.exists THEN Outcome("FileNotFoundError", pfm, TRUE)
    ELSE Outcome("none", pfm, TRUE)

\* check_motifs with every element of a list examined, not the first alone.
check_motifs_every_element(p) ==
    IF p.kind = "list" THEN
        IF Len(p.elems) = 0 THEN Outcome("IndexError", p, FALSE)
        ELSE IF \E k \in 1..Len(p.elems) : ~p.elems[k].to_ppm
             THEN Outcome("ValueError", p, FALSE)
        ELSE Outcome("none", p, FALSE)
    ELSE IF p.kind = "str" THEN check_motifs_path(p, p)
    ELSE IF p.kind = "None" THEN
        IF p.default = None THEN Outcome("ValueError", p, FALSE)
        ELSE check_motifs_path(p,
                 PfmArg("str", <<>>, <<"motif_dir", p.default>>, p.exists, p.default))
    ELSE Outcome("ValueError", p, FALSE)

check_motifs(p) ==
    IF p.kind = "list" THEN
        IF Len(p.elems) = 0 THEN Outcome("IndexError", p, FALSE)
        ELSE IF ~p.elems[1].to_ppm THEN Outcome("ValueError", p, FALSE)
        ELSE Outcome("none", p, FALSE)
    ELSE IF p.kind = "str" THEN check_motifs_path(p, p)
    ELSE IF p.kind = "None" THEN
        IF p.default = None THEN Outcome("ValueError", p, FALSE)
        ELSE check_motifs_path(p,
                 PfmArg("str", <<>>, <<"motif_dir", p.default>>, p.exists, p.default))
    ELSE Outcome("ValueError", p, FALSE)

(* ----------------------------- _format_line --------------------------- *)
strandmap(strand) == IF strand = -1 THEN "-" ELSE "+"

\* [^\s:]
IsContigChar(c) == ~IsSpace(c) /\ c # ":"

\* End (exclusive) of the maximal run of characters satisfying the class
\* that starts at index i (1-based); i itself when s[i] is not in the class.
RECURSIVE RunEndContig(_, _)
RunEndContig(s, i) ==
    IF i <= Len(s) /\ IsContigChar(s[i]) THEN RunEndContig(s, i + 1) ELSE i

RECURSIVE RunEndDigit(_, _)
RunEndDigit(s, i) ==
    IF i <= Len(s) /\ IsDigit(s[i]) THEN RunEndDigit(s, i + 1) ELSE i

\* Whether ([^\s:]+):(\d+)-(\d+) matches at index i.  The greedy contig run
\* has to end at a colon, the greedy digit run at a dash followed by a digit.
MatchAt(s, i) ==
    LET j == RunEndContig(s, i)
        k == RunEndDigit(s, j + 1)
    IN  /\ j > i
        /\ j <= Len(s) /\ s[j] = ":"
        /\ k > j + 1
        /\ k <= Len(s) /\ s[k] = "-"
        /\ k + 1 <= Len(s) /\ IsDigit(s[k + 1])

\* seq_p.match(seq_id) in place of search: the pattern tried at the first
\* character only.
RegexMatchAtStart(s) ==
    IF Len(s) > 0 /\ MatchAt(s, 1) THEN
        [found |-> TRUE, chrom |-> SubSeq(s, 1, RunEndContig(s, 1) - 1),
         start |-> ParseInt(SubSeq(s, RunEndContig(s, 1) + 1,
                                   RunEndDigit(s, RunEndContig(s, 1) + 1) - 1))]
    ELSE [found |-> FALSE, chrom |-> <<>>, start |-> 0]

\* seq_p.search(seq_id): the leftmost index at which the pattern matches.
RegexSearch(s) ==
    IF \E i \in 1..Len(s) : MatchAt(s, i) THEN
        LET i == CHOOSE x \in 1..Len(s) :
                     MatchAt(s, x) /\ \A y \in 1..(x - 1) : ~MatchAt(s, y)
            j == RunEndContig(s, i)
            k == RunEndDigit(s, j + 1)
        IN  [found |-> TRUE, chrom |-> SubSeq(s, i, j - 1),
             start |-> ParseInt(SubSeq(s, j + 1, k - 1))]
    ELSE [found |-> FALSE, chrom |-> <<>>, start |-> 0]

BedLine(chrom, start, end, mid, score, strand) ==
    [tag |-> "bed", chrom |-> chrom, start |-> start, end |-> end,
     motif |-> mid, score |-> score, strand |-> strand]

_format_line(seq, seq_id, motif, score, pos, strand, bed) ==
    IF bed THEN
        LET m == RegexSearch(seq_id) IN
        IF m.found THEN
            BedLine(m.chrom, m.start + pos, m.start + pos + motif.len,
                    motif.id, score, strandmap(strand))
        ELSE
            BedLine(seq_id, pos, pos + motif.len, motif.id, score,
                    strandmap(strand))
    ELSE
        [tag |-> "gff", seq_id |-> seq_id, source |-> "pfmscan",
         feature |-> "misc_feature", start |-> pos + 1, end |-> pos + motif.len,
         score |-> score, strand |-> strandmap(strand), frame |-> ".",
         motif |-> motif.id, instance |-> Slice(seq, pos, pos + motif.len)]


(* ------------------------- str.format of a float ---------------------- *)
DefaultPrecision == 6

\* The format spec of line 347, "{:4f}", as its characters after the colon.
ScoreFormatSpec == <<"4", "f">>

\* [width][.precision]type of the format mini-language: the digits before
\* an optional "." are the minimum field width, those after it the precision.
ParseFormatSpec(spec) ==
    LET w == RunEndDigit(spec, 1)
        hasP == w <= Len(spec) /\ spec[w] = "."
        p == IF hasP THEN RunEndDigit(spec, w + 1) ELSE w
    IN  [width |-> ParseInt(SubSeq(spec, 1, w - 1)),
         precision |-> IF hasP THEN ParseInt(SubSeq(spec, w + 1, p - 1))
                       ELSE DefaultPrecision,
         type |-> spec[p]]

RECURSIVE Pow10(_)
Pow10(n) == IF n = 0 THEN 1 ELSE 10 * Pow10(n - 1)

RECURSIVE NumDigits(_)
NumDigits(n) == IF n < 10 THEN 1 ELSE 1 + NumDigits(n \div 10)

\* The decimal digits of n, left-padded with zeros to k digits.
DigitsOf(n, k) == [d \in 1..k |-> Digits[((n \div Pow10(k - d)) % 10) + 1]]

\* format(x, spec) of a non-negative score x given in 10^-6 units: the
\* integer part, the digits after the decimal point, and the padding that
\* brings the text to the minimum width.
FormatFloat(spec, x) ==
    LET f == ParseFormatSpec(spec)
        p == f.precision
        scaled == IF p >= 6 THEN x * Pow10(p - 6)
                  ELSE (x + 5 * Pow10(5 - p)) \div Pow10(6 - p)
        ip == scaled \div Pow10(p)
        frac == DigitsOf(scaled % Pow10(p), p)
        n == NumDigits(ip) + (IF p > 0 THEN 1 + p ELSE 0)
    IN  [int |-> ip, frac |-> frac,
         pad |-> IF n < f.width THEN f.width - n ELSE 0]


(* --------------- collaborators outside this file (from the spec) ------- *)
\* FPR of gimmemotifs.scanner.base, the default false-positive rate.
FPR == "0.01"

MotifNames == <<"M1", "M2", "M3", "M4">>

\* The j-th motif of the motif database used in the runs.
MotifNo(j) == MotifObj(MotifNames[j], 1 + (j % MaxMotifLen))

MotifList(n) == [j \in 1..n |-> MotifNo(j)]

\* read_motifs: a list is passed through, a file gives the motifs it holds.
read_motifs(p) == IF p.kind = "list" THEN p.elems ELSE MotifList(MaxMotifs)

\* The identifiers and residues of the input sequences (as_fasta): odd
\* sequences are named by a genomic locus, even ones by a plain name.
SeqIdNo(i) == IF i % 2 = 1 THEN <<"c", ":", "2", "0", "-", "9">> ELSE <<"s", "q">>

SeqNo(i) == <<"A", "C", "G", "T">>

\* Scanner results for sequence i and the j-th motif: count, best score (in
\* 10^-6 units), best match and the reported matches (score, pos, strand).
CountOf(i, j) == (i + j) % 3

ScoreOf(i, j) == 1500000 * i + 123456 * j

MatchOf(i, j) ==
    [score |-> ScoreOf(i, j), pos |-> (i + j) % (MaxPos + 1),
     strand |-> IF j % 2 = 0 THEN -1 ELSE 1]

MatchesOf(i, j) == IF (i + j) % 3 = 0 THEN <<>> ELSE <<MatchOf(i, j)>>

EngineRow(what, i, n) ==
    [j \in 1..n |->
        CASE what = "count" -> CountOf(i, j)
          [] what = "best_score" -> ScoreOf(i, j)
          [] what = "best_match" -> MatchOf(i, j)
          [] OTHER -> MatchesOf(i, j)]

(* ------------------------- scan_to_file: header ------------------------ *)
Comment(tag, cells) == [tag |-> tag, cells |-> cells]

\* Lines 265-281, with a the arguments after the defaulting of fpr.
HeaderLines(a, pfm) ==
    <<Comment("version", <<>>), Comment("Input", <<>>), Comment("Motifs", <<pfm.kind>>)>>
    \o (IF Truthy(a.fpr) /\ ~a.score_table THEN
            IF a.genome # None THEN <<Comment("FPR", <<a.fpr, a.genome>>)>>
            ELSE IF Truthy(a.bgfile) THEN <<Comment("FPR", <<a.fpr, a.bgfile>>)>>
            ELSE <<>>
        ELSE <<>>)
    \o (IF a.cutoff # None THEN <<Comment("Threshold", <<a.cutoff>>)>> ELSE <<>>)
    \o (IF a.zscore THEN
            IF a.gcnorm THEN <<Comment("Scoring", <<"GC frequency normalized z-score">>)>>
            ELSE <<Comment("Scoring", <<"normalized z-score">>)>>
        ELSE <<Comment("Scoring", <<"logodds score">>)>>)

(* ------------------------ the result generators ------------------------ *)
Ids(ms) == [j \in 1..Len(ms) |-> ms[j].id]

HeaderRow(ms) == [tag |-> "header_row", cells |-> <<"">> \o Ids(ms)]

\* Line 337: the sequence identifier and str(x) of every count.
CountRow(i, counts) == [tag |-> "count_row", id |-> SeqIdNo(i), cells |-> counts]

\* Line 347: the sequence identifier and every score through the format spec.
ScoreRow(i, scores) ==
    [tag |-> "score_row", id |-> SeqIdNo(i),
     cells |-> [j \in 1..Len(scores) |-> FormatFloat(ScoreFormatSpec, scores[j])]]

\* zip(a, b) stops at the shorter of the two.
ZipLen(a, b) == Min(Len(a), Len(b))

\* Lines 364-366 for one result: one line per match of every motif.
RECURSIVE NormalLines(_, _, _, _, _)
NormalLines(i, ms, res, bed, j) ==
    IF j > ZipLen(ms, res) THEN <<>>
    ELSE [k \in 1..Len(res[j]) |->
             _format_line(SeqNo(i), SeqIdNo(i), ms[j], res[j][k].score,
                          res[j][k].pos, res[j][k].strand, bed)]
         \o NormalLines(i, ms, res, bed, j + 1)

\* A generator object: which function it runs, whether its body has run to
\* the first yield (table header) or engine call, how many engine results it
\* has consumed, and the lines of the current result not yet yielded.
Generator(kind) == [kind |-> kind, started |-> FALSE, i |-> 0, pending |-> <<>>]


\* The first sequence after i whose result yields at least one line, or
\* nseq + 1 when the results are exhausted.
RECURSIVE NextWithLines(_, _, _, _)
NextWithLines(i, nseq, ms, bed) ==
    IF i + 1 > nseq THEN nseq + 1
    ELSE IF Len(NormalLines(i + 1, ms, EngineRow("scan", i + 1, Len(ms)), bed, 1)) > 0
         THEN i + 1
         ELSE NextWithLines(i + 1, nseq, ms, bed)

Yield(g, line, call, engine) ==
    [done |-> FALSE, line |-> line, g |-> g, call |-> call, engine |-> engine]

Stop(g, call) ==
    [done |-> TRUE, line |-> Comment("none", <<>>), g |-> g, call |-> call,
     engine |-> TRUE]

\* next(it) for _scan_table (what = "count") and _scan_score_table
\* (what = "best_score"): the header row first; the engine is called when the
\* generator is resumed after it, and every result gives one row.
TableNext(g, what, ms, nseq) ==
    IF ~g.started THEN Yield([g EXCEPT !.started = TRUE], HeaderRow(ms), "none", FALSE)
    ELSE LET call == IF g.i = 0 THEN what ELSE "none"
             row == EngineRow(what, g.i + 1, Len(ms))
         IN  IF g.i + 1 > nseq THEN Stop(g, call)
             ELSE Yield([g EXCEPT !.i = g.i + 1],
                        IF what = "count" THEN CountRow(g.i + 1, row)
                        ELSE ScoreRow(g.i + 1, row),
                        call, TRUE)

\* next(it) for _scan_normal: the engine is called on the first next(); the
\* lines of one result are yielded one by one before the next is fetched.
NormalNext(g, ms, nseq, bed) ==
    LET call == IF g.started THEN "none" ELSE "scan" IN
    IF Len(g.pending) > 0 THEN
        Yield([g EXCEPT !.pending = Tail(g.pending)], Head(g.pending), call, FALSE)
    ELSE LET n == NextWithLines(g.i, nseq, ms, bed)
             lines == NormalLines(n, ms, EngineRow("scan", n, Len(ms)), bed, 1)
         IN  IF n > nseq THEN Stop([g EXCEPT !.started = TRUE, !.i = nseq], call)
             ELSE Yield([g EXCEPT !.started = TRUE, !.i = n, !.pending = Tail(lines)],
                        Head(lines), call, TRUE)

GenNext(g, ms, a) ==
    CASE g.kind = "table" -> TableNext(g, "count", ms, a.nseq)
      [] g.kind = "score_table" -> TableNext(g, "best_score", ms, a.nseq)
      [] OTHER -> NormalNext(g, ms, a.nseq, a.bed)

(* ------------------------------- state --------------------------------- *)
Call(name, a, b) == [name |-> name, a |-> a, b |-> b]

NoSink == [kind |-> "none", closed |-> FALSE, should_close |-> FALSE]

NoResult == [kind |-> "none"]

Idle == [stage |-> "idle"]

\* The arguments scan_to_file reads; scoring and score are not among them.
ToFileArgs ==
    [sink : {None, "buffer", "path"}, fpr : {None, "0.0", "0.05"},
     cutoff : {None, "0.9"}, bed : BOOLEAN, table : BOOLEAN,
     score_table : BOOLEAN, bgfile : {None, "", "bg.fa"},
     genome : {None, "", "hg38"}, zscore : BOOLEAN, gcnorm : BOOLEAN,
     scoring : {"-"}, score : {FALSE}, nseq : 1..MaxSeqs]

\* The arguments scan_regionfile_to_table reads.
TableArgs ==
    [sink : {None}, fpr : {None}, cutoff : {None}, bed : {FALSE}, table : {FALSE},
     score_table : {FALSE}, bgfile : {None}, genome : {"hg38"},
     zscore : BOOLEAN, gcnorm : BOOLEAN, scoring : {"count", "score"},
     score : {FALSE}, nseq : 1..MaxSeqs]

\* The arguments scan_to_best_match reads.
BestMatchArgs ==
    [sink : {None}, fpr : {None}, cutoff : {None}, bed : {FALSE}, table : {FALSE},
     score_table : {FALSE}, bgfile : {None}, genome : {None, "hg38"},
     zscore : BOOLEAN, gcnorm : BOOLEAN, scoring : {"-"},
     score : BOOLEAN, nseq : 1..MaxSeqs]

ArgsOf(o) ==
    CASE o = "scan_to_file" -> ToFileArgs
      [] o = "scan_regionfile_to_table" -> TableArgs
      [] OTHER -> BestMatchArgs

\* Motif sources of the runs: lists of motifs with unique identifiers, a list
\* that repeats a motif, a list of plain objects, and a motif file.
PfmInputs ==
    {PfmArg("list", MotifList(n), <<>>, FALSE, None) : n \in 1..MaxMotifs}
    \cup {PfmArg("list", <<MotifNo(1), MotifNo(1)>>, <<>>, FALSE, None),
          PfmArg("list", <<PlainObj("M1")>>, <<>>, FALSE, None),
          PfmArg("str", <<>>, <<"my.pfm">>, TRUE, None)}

Init ==
    /\ op \in {"scan_to_file", "scan_regionfile_to_table", "scan_to_best_match"}
    /\ pc = "start"
    /\ args \in ArgsOf(op)
    /\ pfmfile \in PfmInputs
    /\ fo = NoSink
    /\ out = <<>>
    /\ calls = <<>>
    /\ motifs = <<>>
    /\ it = Generator("none")
    /\ result = NoResult
    /\ exc = "none"
    /\ cm = Idle
    /\ fl = Idle

(* ------------------------------ shared steps --------------------------- *)
Raise(e) == pc' = "raised" /\ exc' = e

Goto(l) == pc' = l /\ exc' = exc

\* One call of the scanning engine: it is recorded, and either returns
\* (control moves to label to) or raises.
EngineCall(to, c) ==
    /\ calls' = Append(calls, c)
    /\ (Goto(to) \/ Raise("EngineError"))
    /\ UNCHANGED <<op, args, pfmfile, fo, out, motifs, it, result, cm, fl>>

\* scan_to_file with the threshold set before the background.
TF_Order_ThresholdFirst ==
    <<"tf_open", "tf_header", "tf_scanner", "tf_set_motifs", "tf_set_genome",
      "tf_as_fasta", "tf_threshold", "tf_background", "tf_read_motifs",
      "tf_dispatch", "tf_loop", "tf_close", "done">>

\* The statements of each entry operation after check_motifs, in the order
\* of the program text, as the labels of the steps that model them.
TF_Order ==
    <<"tf_open", "tf_header", "tf_scanner", "tf_set_motifs", "tf_set_genome",
      "tf_as_fasta", "tf_background", "tf_threshold", "tf_read_motifs",
      "tf_dispatch", "tf_loop", "tf_close", "done">>

RT_Order ==
    <<"rt_read", "rt_scanner", "rt_set_motifs", "rt_set_genome", "rt_background",
      "rt_threshold", "rt_scan", "rt_rows", "rt_df", "done">>

BM_Order ==
    <<"bm_scanner", "bm_set_genome", "bm_set_motifs", "bm_threshold",
      "bm_read_motifs", "bm_scan", "bm_rows", "done">>

\* The statement that follows the one labelled l.
After(order, l) == order[(CHOOSE i \in 1..Len(order) : order[i] = l) + 1]

FirstLabel(o) ==
    CASE o = "scan_to_file" -> TF_Order[1]
      [] o = "scan_regionfile_to_table" -> RT_Order[1]
      [] OTHER -> BM_Order[1]

\* Lines 80, 246, 457: pfmfile = check_motifs(pfmfile).
CheckMotifs ==
    /\ pc = "start"
    /\ LET r == check_motifs(pfmfile) IN
        IF r.exc = "none" THEN pfmfile' = r.value /\ Goto(FirstLabel(op))
        ELSE pfmfile' = pfmfile /\ Raise(r.exc)
    /\ UNCHANGED <<op, args, fo, out, calls, motifs, it, result, cm, fl>>


(* ------------------------------ scan_to_file --------------------------- *)
\* Lines 248-260: stdout, a caller's buffer, or a file opened from the path.
TF_OpenSink ==
    /\ pc = "tf_open"
    /\ \/ /\ args.sink = None
          /\ fo' = [kind |-> "stdout", closed |-> FALSE, should_close |-> FALSE]
          /\ Goto(After(TF_Order, "tf_open"))
       \/ /\ args.sink = "buffer"
          /\ fo' = [kind |-> "buffer", closed |-> FALSE, should_close |-> FALSE]
          /\ Goto(After(TF_Order, "tf_open"))
       \/ /\ args.sink = "path"
          /\ fo' = [kind |-> "file", closed |-> FALSE, should_close |-> TRUE]
          /\ Goto(After(TF_Order, "tf_open"))
       \/ /\ args.sink = "path"
          /\ fo' = fo
          /\ Raise("OSError")
    /\ UNCHANGED <<op, args, pfmfile, out, calls, motifs, it, result, cm, fl>>

\* Lines 262-263.
DefaultFpr(a) ==
    [a EXCEPT !.fpr = IF a.fpr = None /\ a.cutoff = None THEN FPR ELSE a.fpr]

\* Lines 262-281: the defaulting of fpr and the header block; a write that
\* fails leaves the lines before it in the sink.
TF_Header ==
    /\ pc = "tf_header"
    /\ args' = DefaultFpr(args)
    /\ LET lines == HeaderLines(DefaultFpr(args), pfmfile) IN
        \/ out' = out \o lines /\ Goto(After(TF_Order, "tf_header"))
        \/ \E k \in 0..(Len(lines) - 1) :
              out' = out \o SubSeq(lines, 1, k) /\ Raise("OSError")
    /\ UNCHANGED <<op, pfmfile, fo, calls, motifs, it, result, cm, fl>>

\* Line 284.
TF_Scanner ==
    /\ pc = "tf_scanner"
    /\ EngineCall(After(TF_Order, "tf_scanner"), Call("Scanner", "-", "-"))

\* Line 285.
TF_SetMotifs ==
    /\ pc = "tf_set_motifs"
    /\ EngineCall(After(TF_Order, "tf_set_motifs"), Call("set_motifs", "-", "-"))

\* Line 286.
TF_SetGenome ==
    /\ pc = "tf_set_genome"
    /\ EngineCall(After(TF_Order, "tf_set_genome"), Call("set_genome", args.genome, "-"))

\* Line 289.
TF_AsFasta ==
    /\ pc = "tf_as_fasta"
    /\ (Goto(After(TF_Order, "tf_as_fasta")) \/ Raise("OSError"))
    /\ UNCHANGED <<op, args, pfmfile, fo, out, calls, motifs, it, result, cm, fl>>

\* Lines 290-293.
TF_SetBackground ==
    /\ pc = "tf_background"
    /\ IF Truthy(args.genome) THEN
           EngineCall(After(TF_Order, "tf_background"), Call("set_background", None, args.genome))
       ELSE IF Truthy(args.bgfile) THEN
           EngineCall(After(TF_Order, "tf_background"), Call("set_background", args.bgfile, None))
       ELSE
           /\ Goto(After(TF_Order, "tf_background"))
           /\ UNCHANGED <<op, args, pfmfile, fo, out, calls, motifs, it, result, cm, fl>>

\* set_threshold without the cutoff when the count table is asked for.
ThresholdCall_FprOnlyInTable(a) ==
    Call("set_threshold", a.fpr, IF a.table THEN None ELSE a.cutoff)

\* Line 296: s.set_threshold(fpr=fpr, threshold=cutoff).
ThresholdCall(a) == Call("set_threshold", a.fpr, a.cutoff)

\* Lines 294-296.
TF_SetThreshold ==
    /\ pc = "tf_threshold"
    /\ IF ~args.score_table THEN
           EngineCall(After(TF_Order, "tf_threshold"), ThresholdCall(args))
       ELSE
           /\ Goto(After(TF_Order, "tf_threshold"))
           /\ UNCHANGED <<op, args, pfmfile, fo, out, calls, motifs, it, result, cm, fl>>

\* Line 298.
TF_ReadMotifs ==
    /\ pc = "tf_read_motifs"
    /\ \/ motifs' = read_motifs(pfmfile) /\ Goto(After(TF_Order, "tf_read_motifs"))
       \/ pfmfile.kind = "str" /\ motifs' = motifs /\ Raise("OSError")
    /\ UNCHANGED <<op, args, pfmfile, fo, out, calls, it, result, cm, fl>>

\* Lines 299-313: which generator the flags select.
DispatchKind(a) ==
    IF a.table THEN "table" ELSE IF a.score_table THEN "score_table" ELSE "normal"

TF_Dispatch ==
    /\ pc = "tf_dispatch"
    /\ it' = Generator(DispatchKind(args))
    /\ Goto(After(TF_Order, "tf_dispatch"))
    /\ UNCHANGED <<op, args, pfmfile, fo, out, calls, motifs, result, cm, fl>>

LogCall(name) == IF name = "none" THEN calls ELSE Append(calls, Call(name, "-", "-"))

\* Lines 314-315: one turn of the loop, next(it) and the print of its line.
\* The engine may raise when the generator touches it, the sink on the write.
TF_Loop ==
    /\ pc = "tf_loop"
    /\ \E r \in {GenNext(it, motifs, args)} :
        /\ calls' = LogCall(r.call)
        /\ \/ r.done /\ it' = r.g /\ out' = out /\ Goto(After(TF_Order, "tf_loop"))
           \/ ~r.done /\ it' = r.g /\ out' = Append(out, r.line) /\ Goto("tf_loop")
           \/ r.engine /\ it' = it /\ out' = out /\ Raise("EngineError")
           \/ ~r.done /\ it' = r.g /\ out' = out /\ Raise("OSError")
    /\ UNCHANGED <<op, args, pfmfile, fo, motifs, result, cm, fl>>

\* Lines 317-321: the close of an owned sink; a failure of close is swallowed.
TF_Close ==
    /\ pc = "tf_close"
    /\ fo' = IF fo.should_close THEN [fo EXCEPT !.closed = TRUE] ELSE fo
    /\ Goto(After(TF_Order, "tf_close"))
    /\ UNCHANGED <<op, args, pfmfile, out, calls, motifs, it, result, cm, fl>>


(* ------------------------ scan_regionfile_to_table --------------------- *)
SampleSize == 1000

\* Lines 91-95: how many regions are measured for the background size.
CheckRegionCount(n) == IF n >= SampleSize THEN SampleSize ELSE n

\* Lines 82-98: the region table is read and the median length taken.
RT_ReadRegions ==
    /\ pc = "rt_read"
    /\ \/ /\ result' = [kind |-> "scores", rows |-> <<>>,
                        checked |-> CheckRegionCount(args.nseq)]
          /\ Goto(After(RT_Order, "rt_read"))
       \/ result' = result /\ Raise("OSError")
    /\ UNCHANGED <<op, args, pfmfile, fo, out, calls, motifs, it, cm, fl>>

\* Line 100.
RT_Scanner ==
    /\ pc = "rt_scanner"
    /\ EngineCall(After(RT_Order, "rt_scanner"), Call("Scanner", "-", "-"))

\* Line 101.
RT_SetMotifs ==
    /\ pc = "rt_set_motifs"
    /\ EngineCall(After(RT_Order, "rt_set_motifs"), Call("set_motifs", "-", "-"))

\* Line 102.
RT_SetGenome ==
    /\ pc = "rt_set_genome"
    /\ EngineCall(After(RT_Order, "rt_set_genome"), Call("set_genome", args.genome, "-"))

\* Lines 103-106.
RT_SetBackground ==
    /\ pc = "rt_background"
    /\ EngineCall(IF args.scoring = "count" THEN After(RT_Order, "rt_background")
                  ELSE After(RT_Order, "rt_threshold"),
                  Call("set_background", None, None))

\* Line 108.
RT_SetThreshold ==
    /\ pc = "rt_threshold"
    /\ EngineCall(After(RT_Order, "rt_threshold"), Call("set_threshold", FPR, None))

\* Lines 110 and 122: the call that makes the result iterator.
RT_Scan ==
    /\ pc = "rt_scan"
    /\ EngineCall(After(RT_Order, "rt_scan"),
                  Call(IF args.scoring = "count" THEN "count" ELSE "best_score", "-", "-"))

\* Lines 110-111 and 122-123: one result appended to scores.
RT_Row ==
    /\ pc = "rt_rows"
    /\ LET n == Len(result.rows)
           what == IF args.scoring = "count" THEN "count" ELSE "best_score"
       IN  \/ /\ n < args.nseq
              /\ result' = [result EXCEPT !.rows =
                     Append(@, EngineRow(what, n + 1, Len(read_motifs(pfmfile))))]
              /\ Goto("rt_rows")
           \/ n >= args.nseq /\ result' = result /\ Goto(After(RT_Order, "rt_rows"))
           \/ result' = result /\ Raise("EngineError")
    /\ UNCHANGED <<op, args, pfmfile, fo, out, calls, motifs, it, cm, fl>>

\* Lines 126-133.
RT_DataFrame ==
    /\ pc = "rt_df"
    /\ result' = [kind |-> "df", rows |-> result.rows,
                  index |-> [i \in 1..args.nseq |-> i],
                  columns |-> Ids(read_motifs(pfmfile)),
                  dtype |-> IF args.scoring = "count" THEN "int" ELSE "float16"]
    /\ Goto(After(RT_Order, "rt_df"))
    /\ UNCHANGED <<op, args, pfmfile, fo, out, calls, motifs, it, cm, fl>>

(* --------------------------- scan_to_best_match ------------------------ *)
\* Line 460.
BM_Scanner ==
    /\ pc = "bm_scanner"
    /\ EngineCall(After(BM_Order, "bm_scanner"), Call("Scanner", "-", "-"))

\* Line 461.
BM_SetGenome ==
    /\ pc = "bm_set_genome"
    /\ EngineCall(After(BM_Order, "bm_set_genome"), Call("set_genome", args.genome, "-"))

\* Line 462.
BM_SetMotifs ==
    /\ pc = "bm_set_motifs"
    /\ EngineCall(After(BM_Order, "bm_set_motifs"), Call("set_motifs", "-", "-"))

\* Line 463.
BM_SetThreshold ==
    /\ pc = "bm_threshold"
    /\ EngineCall(After(BM_Order, "bm_threshold"), Call("set_threshold", None, "0.0"))

\* Line 467: dict([(m.id, []) for m in motifs]).
EmptyLists(ms) == [id \in {ms[j].id : j \in 1..Len(ms)} |-> <<>>]

\* Lines 466-467.
BM_ReadMotifs ==
    /\ pc = "bm_read_motifs"
    /\ \/ \E ms \in {IF pfmfile.kind = "str" THEN read_motifs(pfmfile)
                      ELSE pfmfile.elems} :
             /\ motifs' = ms
             /\ result' = [kind |-> "dict", d |-> EmptyLists(ms), n |-> 0]
             /\ Goto(After(BM_Order, "bm_read_motifs"))
       \/ pfmfile.kind = "str" /\ motifs' = motifs /\ result' = result /\ Raise("OSError")
    /\ UNCHANGED <<op, args, pfmfile, fo, out, calls, it, cm, fl>>

\* Lines 468-471.
BM_Scan ==
    /\ pc = "bm_scan"
    /\ EngineCall(After(BM_Order, "bm_scan"),
                  Call(IF args.score THEN "best_score" ELSE "best_match", "-", "-"))

\* The scores put at the front of the lists instead of appended.
RECURSIVE AppendScoresAtFront(_, _, _, _)
AppendScoresAtFront(d, ms, scores, j) ==
    IF j > Min(Len(ms), Len(scores)) THEN d
    ELSE AppendScoresAtFront([d EXCEPT ![ms[j].id] = <<scores[j]>> \o @],
                             ms, scores, j + 1)

\* Lines 473-474 for one result: result[motif.id].append(score) over
\* zip(motifs, scores), from the j-th pair on.
RECURSIVE AppendScores(_, _, _, _)
AppendScores(d, ms, scores, j) ==
    IF j > ZipLen(ms, scores) THEN d
    ELSE AppendScores([d EXCEPT ![ms[j].id] = Append(@, scores[j])], ms, scores, j + 1)

\* Lines 472-474: one turn of the loop over the result iterator.
BM_Row ==
    /\ pc = "bm_rows"
    /\ LET what == IF args.score THEN "best_score" ELSE "best_match" IN
        \/ /\ result.n < args.nseq
           /\ result' = [result EXCEPT
                  !.d = AppendScores(@, motifs,
                            EngineRow(what, result.n + 1, Len(read_motifs(pfmfile))), 1),
                  !.n = @ + 1]
           /\ Goto("bm_rows")
        \/ result.n >= args.nseq /\ result' = result /\ Goto(After(BM_Order, "bm_rows"))
        \/ result.n < args.nseq /\ result' = result /\ Raise("EngineError")
    /\ UNCHANGED <<op, args, pfmfile, fo, out, calls, motifs, it, cm, fl>>

Next ==
    \/ CheckMotifs
    \/ TF_OpenSink \/ TF_Header \/ TF_Scanner \/ TF_SetMotifs \/ TF_SetGenome
    \/ TF_AsFasta \/ TF_SetBackground \/ TF_SetThreshold \/ TF_ReadMotifs
    \/ TF_Dispatch \/ TF_Loop \/ TF_Close
    \/ RT_ReadRegions \/ RT_Scanner \/ RT_SetMotifs \/ RT_SetGenome
    \/ RT_SetBackground \/ RT_SetThreshold \/ RT_Scan \/ RT_Row \/ RT_DataFrame
    \/ BM_Scanner \/ BM_SetGenome \/ BM_SetMotifs \/ BM_SetThreshold
    \/ BM_ReadMotifs \/ BM_Scan \/ BM_Row

Spec == Init /\ [][Next]_vars


(* ------------------- check_motifs on its own inputs -------------------- *)
\* The entry operations at rest, while a function is exercised on its own.
AtRest ==
    /\ op = "none" /\ pc = "idle"
    /\ args = CHOOSE a \in BestMatchArgs : TRUE
    /\ pfmfile = PfmArg("other", <<>>, <<>>, FALSE, None)
    /\ fo = NoSink /\ out = <<>> /\ calls = <<>> /\ motifs = <<>>
    /\ it = Generator("none") /\ result = NoResult /\ exc = "none"

ListElems == {MotifNo(1), MotifNo(2), PlainObj("M1"), PlainObj("M2")}

ListsUpTo(n) == UNION {[1..k -> ListElems] : k \in 0..n}

CheckInputs ==
    {PfmArg("list", l, <<>>, FALSE, None) : l \in ListsUpTo(MaxListLen)}
    \cup {PfmArg("str", <<>>, <<"my.pfm">>, e, None) : e \in BOOLEAN}
    \cup {PfmArg("None", <<>>, <<>>, e, d) : e \in BOOLEAN, d \in {None, "db.pfm"}}
    \cup {PfmArg("other", <<>>, <<>>, FALSE, None)}

InitCheck ==
    /\ AtRest
    /\ cm \in {[stage |-> "in", arg |-> p] : p \in CheckInputs}
    /\ fl = Idle

\* Lines 136-167: one call of check_motifs.
CM_Call ==
    /\ cm.stage = "in"
    /\ cm' = [stage |-> "out", arg |-> cm.arg, ret |-> check_motifs(cm.arg)]
    /\ UNCHANGED <<op, pc, args, pfmfile, fo, out, calls, motifs, it, result, exc, fl>>

NextCheck == CM_Call

SpecCheck == InitCheck /\ [][NextCheck]_vars


(* ------------------- _format_line on its own inputs -------------------- *)
\* One character of each kind the pattern tells apart: a letter, a digit,
\* the colon, the dash and a blank.
Alphabet == {"c", "1", ":", "-", " "}

RECURSIVE Texts(_)
Texts(n) ==
    IF n = 0 THEN {<<>>}
    ELSE Texts(n - 1) \cup {Append(t, c) : t \in Texts(n - 1), c \in Alphabet}

\* The matches the engine can report for one sequence: the motif's length,
\* the position and the strand.
MatchSpace == [len : 1..MaxMotifLen, pos : 0..MaxPos, strand : {-1, 1}]

\* Lines 364-366: every match of one sequence through _format_line.
FormatAll(seq_id, bed) ==
    [m \in MatchSpace |->
        _format_line(SeqNo(1), seq_id, MotifObj("M1", m.len), ScoreOf(1, 1),
                     m.pos, m.strand, bed)]

InitFormat ==
    /\ AtRest
    /\ cm = Idle
    /\ fl \in [stage : {"in"}, seq_id : Texts(MaxIdLen), bed : BOOLEAN]

FL_Format ==
    /\ fl.stage = "in"
    /\ fl' = [stage |-> "out", seq_id |-> fl.seq_id, bed |-> fl.bed,
              lines |-> FormatAll(fl.seq_id, fl.bed)]
    /\ UNCHANGED <<op, pc, args, pfmfile, fo, out, calls, motifs, it, result, exc, cm>>

NextFormat == FL_Format

SpecFormat == InitFormat /\ [][NextFormat]_vars


(* ======================= properties of the runs ======================== *)
ResultOps == {"count", "best_score", "best_match", "scan"}

Exited == pc \in {"done", "raised"}

CallsNamed(n) == {j \in 1..Len(calls) : calls[j].name = n}

\* C1: at every exit of scan_to_file, by return or by an exception, a sink
\* opened from a path is closed and a sink handed in by the caller (or
\* standard output) is not closed.
C1_SinkClosedOnEveryExit ==
    (op = "scan_to_file" /\ Exited) =>
        /\ fo.kind = "file" => fo.closed
        /\ fo.kind \in {"stdout", "buffer"} => ~fo.closed

\* The order the claim gives: motifs, then genome/background, then threshold,
\* then the result-producing operations.
ClaimRank(n) ==
    CASE n = "Scanner" -> 0
      [] n = "set_motifs" -> 1
      [] n \in {"set_genome", "set_background"} -> 2
      [] n = "set_threshold" -> 3
      [] OTHER -> 4

OneScanner ==
    /\ Cardinality(CallsNamed("Scanner")) <= 1
    /\ Len(calls) > 0 => calls[1].name = "Scanner"
    /\ pc = "done" => Cardinality(CallsNamed("Scanner")) = 1

\* C2 as stated: in each entry operation exactly one Scanner is constructed
\* and the calls on it come in the order set_motifs, set_genome and
\* set_background, set_threshold, all before the first result-producing call.
C2_FixedOrder ==
    /\ OneScanner
    /\ \A i, j \in 1..Len(calls) :
          i < j => ClaimRank(calls[i].name) <= ClaimRank(calls[j].name)

\* The order of the program text: scan_to_best_match sets the genome before
\* the motifs, the other two the motifs before the genome.
CodeRank(o, n) ==
    CASE n = "Scanner" -> 0
      [] n = "set_motifs" -> IF o = "scan_to_best_match" THEN 2 ELSE 1
      [] n = "set_genome" -> IF o = "scan_to_best_match" THEN 1 ELSE 2
      [] n = "set_background" -> 3
      [] n = "set_threshold" -> 4
      [] OTHER -> 5

\* C2 (amended): exactly one Scanner is constructed per entry operation, no
\* call on it is made twice, every configuration call comes before the one
\* result-producing call, and the configuration calls come in the order
\* set_motifs, set_genome, set_background, set_threshold in
\* scan_regionfile_to_table and scan_to_file, and in the order set_genome,
\* set_motifs, set_threshold in scan_to_best_match.
C2_OrderPerOperation ==
    /\ OneScanner
    /\ \A i, j \in 1..Len(calls) :
          i < j => CodeRank(op, calls[i].name) < CodeRank(op, calls[j].name)
    /\ pc = "done" => calls[Len(calls)].name \in ResultOps

C2_Witness ==
    /\ op = "scan_to_best_match" /\ pc = "done"
    /\ Len(calls) = 5
    /\ calls[2].name = "set_genome" /\ calls[3].name = "set_motifs"
    /\ calls[4].name = "set_threshold" /\ calls[5].name \in ResultOps

\* C3: whenever set_threshold is called with a false-positive rate (fpr not
\* None), set_background has been called before it on the same Scanner.
C3_BackgroundBeforeFprThreshold ==
    \A j \in CallsNamed("set_threshold") :
        calls[j].a # None => \E i \in CallsNamed("set_background") : i < j

\* C4 as stated: in count-table mode of scan_to_file the caller's cutoff is
\* not passed to set_threshold; the threshold comes from fpr alone.
C4_CutoffIgnoredInTable ==
    (op = "scan_to_file" /\ args.table) =>
        \A j \in CallsNamed("set_threshold") : calls[j].b = None

\* Whether control has passed the statement labelled l of scan_to_file.
TF_Past(l) ==
    \E i, k \in 1..Len(TF_Order) : TF_Order[i] = l /\ TF_Order[k] = pc /\ i < k

\* C4 (amended): in count-table mode of scan_to_file with score_table false,
\* set_threshold is called once, with the false-positive rate (the default
\* when neither fpr nor cutoff was given) and with the caller's cutoff as the
\* threshold; with score_table true as well it is not called at all.
C4_CutoffPassedInTable ==
    (op = "scan_to_file" /\ args.table) =>
        /\ \A j \in CallsNamed("set_threshold") :
              /\ calls[j].a = args.fpr /\ calls[j].b = args.cutoff
              /\ calls[j].a = None => calls[j].b # None
        /\ args.score_table => CallsNamed("set_threshold") = {}
        /\ (~args.score_table /\ TF_Past("tf_threshold")) =>
              Cardinality(CallsNamed("set_threshold")) = 1

C4_Witness ==
    /\ op = "scan_to_file" /\ args.table /\ ~args.score_table /\ pc = "done"
    /\ \E j \in CallsNamed("set_threshold") :
          calls[j].b = "0.9" /\ calls[j].a = "0.05"
    /\ CallsNamed("count") # {}

\* C5: in score-table mode of scan_to_file the header block holds no
\* false-positive-rate line and no explicit-threshold line.
C5_NoThresholdLinesInScoreTable ==
    (op = "scan_to_file" /\ args.score_table) =>
        \A k \in 1..Len(out) : out[k].tag \notin {"FPR", "Threshold"}

UniqueIds(ms) == \A i, j \in 1..Len(ms) : ms[i].id = ms[j].id => i = j

\* C6: scan_to_best_match, for a non-empty list of sequences and motifs with
\* unique identifiers, returns a mapping with one key per motif identifier
\* whose lists hold, in input order, the best value of every sequence; the
\* threshold is set to exactly 0 before the result iterator is made.
C6_BestMatchResult ==
    op = "scan_to_best_match" =>
        /\ \A j \in CallsNamed("best_score") \cup CallsNamed("best_match") :
              \E i \in CallsNamed("set_threshold") :
                  i < j /\ calls[i].b = "0.0" /\ calls[i].a = None
        /\ (pc = "done" /\ UniqueIds(motifs)) =>
              /\ DOMAIN result.d = {motifs[j].id : j \in 1..Len(motifs)}
              /\ \A j \in 1..Len(motifs) :
                    /\ Len(result.d[motifs[j].id]) = args.nseq
                    /\ \A i \in 1..args.nseq :
                          result.d[motifs[j].id][i] =
                              EngineRow(IF args.score THEN "best_score" ELSE "best_match",
                                        i, Len(motifs))[j]

C6_Witness ==
    /\ op = "scan_to_best_match" /\ pc = "done"
    /\ args.nseq >= 2 /\ Len(motifs) >= 2 /\ UniqueIds(motifs)
    /\ Len(result.d[motifs[2].id]) = args.nseq

\* The table rows among the lines written.
IsTableLine(l) == l.tag \in {"header_row", "count_row", "score_row"}

TableLines == SelectSeq(out, IsTableLine)

\* C9: in score-table output the first row is an empty cell followed by the
\* motif identifiers in resolved order, and every following row is the
\* sequence identifier followed by one score per motif, each score with
\* exactly 4 digits after the decimal point.
C9_ScoreTableRows ==
    (op = "scan_to_file" /\ it.kind = "score_table") =>
        \A k \in 1..Len(TableLines) :
            IF k = 1 THEN
                /\ TableLines[k].tag = "header_row"
                /\ TableLines[k].cells = <<"">> \o Ids(motifs)
            ELSE
                /\ TableLines[k].tag = "score_row"
                /\ TableLines[k].id = SeqIdNo(k - 1)
                /\ Len(TableLines[k].cells) = Len(motifs)
                /\ \A j \in 1..Len(TableLines[k].cells) :
                      Len(TableLines[k].cells[j].frac) = 4

\* C10: in scan_to_file, whatever the table and score_table flags, a call of
\* count or scan comes after a call of set_threshold on the same Scanner.
C10_ThresholdBeforeCountOrScan ==
    op = "scan_to_file" =>
        \A j \in CallsNamed("count") \cup CallsNamed("scan") :
            \E i \in CallsNamed("set_threshold") : i < j

(* ======================= properties of check_motifs ==================== *)
\* C7: on a list whose first element lacks to_ppm, check_motifs raises
\* ValueError; on a list whose first element has it, it returns that very
\* list, whatever the other elements are and without a file-existence check.
C7_ListCheck ==
    (cm.stage = "out" /\ cm.arg.kind = "list" /\ Len(cm.arg.elems) > 0) =>
        IF cm.arg.elems[1].to_ppm THEN
            /\ cm.ret.exc = "none"
            /\ cm.ret.value = cm.arg
            /\ ~cm.ret.exists_checked
        ELSE cm.ret.exc = "ValueError"

C7_Witness ==
    /\ cm.stage = "out" /\ cm.arg.kind = "list" /\ Len(cm.arg.elems) >= 2
    /\ cm.arg.elems[1].to_ppm /\ ~cm.arg.elems[2].to_ppm
    /\ cm.ret.exc = "none" /\ cm.ret.value = cm.arg


(* ======================= properties of _format_line ==================== *)
\* s[i..j-1] is a contig name (no blank, no colon), s[j] the colon,
\* s[j+1..k-1] a decimal number, s[k] the dash and s[k+1] a digit: an
\* occurrence of contig:start-end in s.
Occurs(s, i, j, k) ==
    /\ 1 <= i /\ i < j /\ j + 1 < k /\ k < Len(s)
    /\ \A x \in i..(j - 1) : ~IsSpace(s[x]) /\ s[x] # ":"
    /\ s[j] = ":"
    /\ \A x \in (j + 1)..(k - 1) : IsDigit(s[x])
    /\ s[k] = "-"
    /\ IsDigit(s[k + 1])

Occurrences(s) ==
    {o \in (1..Len(s)) \X {j \in 1..Len(s) : s[j] = ":"} \X {k \in 1..Len(s) : s[k] = "-"} :
        Occurs(s, o[1], o[2], o[3])}

\* The whole of s is contig:start-end.
HasLocusForm(s) ==
    \E o \in Occurrences(s) :
        o[1] = 1 /\ \A x \in (o[3] + 1)..Len(s) : IsDigit(s[x])

Leftmost(os) == CHOOSE o \in os : \A q \in os : o[1] <= q[1]

Genomic(line, s, o, m) ==
    /\ line.chrom = SubSeq(s, o[1], o[2] - 1)
    /\ line.start = ParseInt(SubSeq(s, o[2] + 1, o[3] - 1)) + m.pos
    /\ line.end = ParseInt(SubSeq(s, o[2] + 1, o[3] - 1)) + m.pos + m.len

Relative(line, s, m) ==
    /\ line.chrom = s
    /\ line.start = m.pos
    /\ line.end = m.pos + m.len

Common(line, m) ==
    /\ line.tag = "bed"
    /\ line.end - line.start = m.len
    /\ line.motif = "M1"
    /\ line.score = ScoreOf(1, 1)
    /\ line.strand = (IF m.strand = -1 THEN "-" ELSE "+")

\* C8 as stated: in BED mode, an identifier of the form contig:start-end
\* gives contig, start+p, start+p+L, motif id, score, strand, and any other
\* identifier gives the identifier, p, p+L, motif id, score, strand.
C8_BedByLocusForm ==
    (fl.stage = "out" /\ fl.bed) =>
        \A m \in MatchSpace :
            /\ Common(fl.lines[m], m)
            /\ IF HasLocusForm(fl.seq_id)
               THEN Genomic(fl.lines[m], fl.seq_id, Leftmost(Occurrences(fl.seq_id)), m)
               ELSE Relative(fl.lines[m], fl.seq_id, m)

\* C8 (amended): in BED mode, an identifier that contains contig:start-end
\* anywhere (the pattern is searched, not matched against the whole
\* identifier) gives the contig and start of the leftmost occurrence, the
\* contig being the longest run without blank or colon before the colon, as
\* contig, start+p, start+p+L, motif id, score, strand; an identifier that
\* contains none gives the identifier, p, p+L, motif id, score, strand; in
\* both end - start = L, and strand -1 is '-' and +1 is '+'.
C8_BedByLeftmostOccurrence ==
    (fl.stage = "out" /\ fl.bed) =>
        \A m \in MatchSpace :
            /\ Common(fl.lines[m], m)
            /\ IF Occurrences(fl.seq_id) # {}
               THEN Genomic(fl.lines[m], fl.seq_id, Leftmost(Occurrences(fl.seq_id)), m)
               ELSE Relative(fl.lines[m], fl.seq_id, m)

C8_Witness ==
    /\ fl.stage = "out" /\ fl.bed
    /\ fl.seq_id = <<" ", "c", ":", "1", "-", "1">>
    /\ \E m \in MatchSpace :
          /\ m.pos = 1 /\ m.len = 2 /\ m.strand = -1
          /\ fl.lines[m].chrom = <<"c">>
          /\ fl.lines[m].start = 2 /\ fl.lines[m].end = 4
          /\ fl.lines[m].strand = "-"

====
